---- MODULE Spec2Model ----
(***************************************************************************)
(* Ledger engine of casflo-api: the query-layer transaction functions of   *)
(* src/db/queries.js (createTransaction, updateTransaction,                *)
(* deleteTransaction) and the batch-create route of src/routes/books.js,   *)
(* run against the accounts / transactions / transaction_splits tables of  *)
(* schema.sql; the account functions of src/db/queries.js, the             *)
(* TransactionModel of src/models/additional.js on the same tables, and    *)
(* the session and room maps of the WebSocketManager durable object.       *)
(*                                                                         *)
(* Amounts arrive as JavaScript numbers.  A request amount is written here *)
(* in tenths (4 is 0.4, 10 is 1, -10 is -1) so that Math.round is a real   *)
(* conversion; stored amounts and balances are integers.                   *)
(***************************************************************************)
EXTENDS Integers, Sequences, FiniteSets, TLC

VARIABLES accounts, account_names, transactions, transaction_splits, uuid, opening,
          last, calls, sockets, rooms

vars ==
    <<accounts, account_names, transactions, transaction_splits, uuid, opening,
      last, calls, sockets, rooms>>

(* ---------------------------- bounds ----------------------------------- *)
MaxUuid == 4
MaxBatch == 2
MaxFail == 1
MaxDrift == 2
MaxSessions == 2

(* ---------------------------- input sets ------------------------------- *)
NULL == "null"
AccountIds == {"A", "B"}
CategoryIds == {"c1"}
Descriptions == {"d1", "d2"}
RawAmounts == {-10, 0, 4, 10, 20}
OpeningBalances == {0, 3}

(* ---------------------------- JavaScript numbers ----------------------- *)
\* Math.round(x) for x given in tenths: nearest integer, halves go up.
MathRound(t) == (t + 5) \div 10

\* Math.abs on a number given in tenths.
MathAbs(t) == IF t < 0 THEN -t ELSE t

(* ---------------------------- storage ---------------------------------- *)
\* The three tables as one value.  accounts maps an account id to its
\* balance and account_names maps it to its name (the columns updateAccount
\* writes), transactions maps a transaction id to its header, and
\* transaction_splits is the set of split rows.
DB == [accounts |-> accounts, account_names |-> account_names,
       transactions |-> transactions, transaction_splits |-> transaction_splits]

InsertTransaction(id, description) ==
    [op |-> "INSERT_TX", id |-> id, description |-> description]

InsertSplit(id, tx, account_id, category_id, amount, type) ==
    [op |-> "INSERT_SPLIT", id |-> id, transaction_id |-> tx,
     account_id |-> account_id, category_id |-> category_id,
     amount |-> amount, type |-> type]

\* UPDATE accounts SET balance = balance + delta WHERE id = account_id
UpdateBalance(delta, account_id) ==
    [op |-> "UPDATE_BALANCE", delta |-> delta, account_id |-> account_id]

DeleteSplits(tx) == [op |-> "DELETE_SPLITS", transaction_id |-> tx]

DeleteTransactionRow(tx) == [op |-> "DELETE_TX", id |-> tx]

UpdateTransactionRow(tx, description) ==
    [op |-> "UPDATE_TX", id |-> tx, description |-> description]

\* DELETE FROM accounts WHERE id = ?
DeleteAccountRow(account_id) == [op |-> "DELETE_ACCOUNT", id |-> account_id]

\* INSERT INTO accounts (id, book_id, name, type, balance)
InsertAccount(id, name, balance) ==
    [op |-> "INSERT_ACCOUNT", id |-> id, name |-> name, balance |-> balance]

\* UPDATE accounts SET name = ?, type = ?, is_archived = ? WHERE id = ?
UpdateAccountRow(id, name) == [op |-> "UPDATE_ACCOUNT", id |-> id, name |-> name]

\* A statement violates a constraint of schema.sql: primary key, NOT NULL
\* or (PRAGMA foreign_keys = ON) a foreign key.
Violates(db, s) ==
    CASE s.op = "INSERT_TX" ->
           s.id \in DOMAIN db.transactions \/ s.description = NULL
      [] s.op = "INSERT_SPLIT" ->
           \/ s.transaction_id \notin DOMAIN db.transactions
           \/ s.account_id \notin DOMAIN db.accounts
           \/ s.category_id \notin CategoryIds \cup {NULL}
      [] s.op = "INSERT_ACCOUNT" ->
           s.id \in DOMAIN db.accounts \/ s.name = NULL
      [] s.op = "UPDATE_ACCOUNT" ->
           s.id \in DOMAIN db.accounts /\ s.name = NULL
      [] OTHER -> FALSE

\* The effect of one statement that does not violate a constraint.
Exec(db, s) ==
    CASE s.op = "INSERT_TX" ->
           [db EXCEPT !.transactions =
               [i \in DOMAIN db.transactions \cup {s.id} |->
                   IF i = s.id THEN [description |-> s.description, updated |-> FALSE]
                   ELSE db.transactions[i]]]
      [] s.op = "INSERT_SPLIT" ->
           [db EXCEPT !.transaction_splits = @ \cup
               {[id |-> s.id, transaction_id |-> s.transaction_id,
                 account_id |-> s.account_id, category_id |-> s.category_id,
                 amount |-> s.amount, type |-> s.type]}]
      [] s.op = "UPDATE_BALANCE" ->
           IF s.account_id \in DOMAIN db.accounts
           THEN [db EXCEPT !.accounts[s.account_id] = @ + s.delta]
           ELSE db
      [] s.op = "DELETE_SPLITS" ->
           [db EXCEPT !.transaction_splits =
               {r \in @ : r.transaction_id # s.transaction_id}]
      [] s.op = "DELETE_TX" ->
           \* ON DELETE CASCADE removes the splits of the deleted header
           [db EXCEPT !.transactions =
                        [i \in DOMAIN db.transactions \ {s.id} |-> db.transactions[i]],
                      !.transaction_splits =
                        {r \in @ : r.transaction_id # s.id}]
      [] s.op = "UPDATE_TX" ->
           IF s.id \in DOMAIN db.transactions
           THEN [db EXCEPT !.transactions[s.id] =
                    [description |-> s.description, updated |-> TRUE]]
           ELSE db
      [] s.op = "DELETE_ACCOUNT" ->
           \* ON DELETE CASCADE removes the splits of the deleted account
           [db EXCEPT !.accounts =
                        [a \in DOMAIN db.accounts \ {s.id} |-> db.accounts[a]],
                      !.account_names =
                        [a \in DOMAIN db.account_names \ {s.id} |-> db.account_names[a]],
                      !.transaction_splits = {r \in @ : r.account_id # s.id}]
      [] s.op = "INSERT_ACCOUNT" ->
           [db EXCEPT !.accounts =
                        [a \in DOMAIN db.accounts \cup {s.id} |->
                            IF a = s.id THEN s.balance ELSE db.accounts[a]],
                      !.account_names =
                        [a \in DOMAIN db.account_names \cup {s.id} |->
                            IF a = s.id THEN s.name ELSE db.account_names[a]]]
      [] s.op = "UPDATE_ACCOUNT" ->
           IF s.id \in DOMAIN db.account_names
           THEN [db EXCEPT !.account_names[s.id] = s.name]
           ELSE db

\* Statements i..Len(stmts) run one after another.  failAfter = 0 is a
\* storage without failure; failAfter = k > 0 is a storage that fails once
\* k statements have run (at the next statement, or at the end of the
\* sequence when there is none).  A statement that violates a constraint
\* fails as well.  The run stops at the first failure and keeps what ran.
RECURSIVE RunFrom(_, _, _, _)
RunFrom(db, stmts, i, failAfter) ==
    IF i > Len(stmts) THEN [db |-> db, ok |-> TRUE, ran |-> i - 1]
    ELSE IF (failAfter > 0 /\ i = failAfter + 1) \/ Violates(db, stmts[i])
         THEN [db |-> db, ok |-> FALSE, ran |-> i - 1]
         ELSE RunFrom(Exec(db, stmts[i]), stmts, i + 1, failAfter)

\* Each statement awaited on its own with .run(): what ran before a failure
\* stays.
RunEach(db, stmts, failAfter) ==
    LET r == RunFrom(db, stmts, 1, failAfter) IN [db |-> r.db, ok |-> r.ok]

\* db.batch with the statements applied to the balances as they were read
\* at the start instead of the stored ones.
DbBatch_staleAccounts(db, stmts, failAfter) ==
    LET r == RunFrom([db EXCEPT !.accounts = opening], stmts, 1, failAfter)
    IN IF r.ok /\ failAfter = 0 THEN [db |-> r.db, ok |-> TRUE]
       ELSE [db |-> db, ok |-> FALSE]

\* db.batch(stmts): the statements run as one SQL transaction.  A failure
\* at a statement or at the commit rolls the whole sequence back.
DbBatch(db, stmts, failAfter) ==
    LET r == RunFrom(db, stmts, 1, failAfter)
    IN IF r.ok /\ failAfter = 0 THEN [db |-> r.db, ok |-> TRUE]
       ELSE [db |-> db, ok |-> FALSE]

\* SELECT * FROM transaction_splits WHERE transaction_id = ?
SplitsOf(db, tx) == {r \in db.transaction_splits : r.transaction_id = tx}

\* Rows of a result set in insertion order.
RECURSIVE Rows(_)
Rows(S) ==
    IF S = {} THEN <<>>
    ELSE LET m == CHOOSE x \in S : \A y \in S : x.id <= y.id
         IN <<m>> \o Rows(S \ {m})

(* ---------------------------- return values ---------------------------- *)
Ok == [kind |-> "ok", message |-> ""]
Error(msg) == [kind |-> "error", message |-> msg]
Throw == [kind |-> "throw", message |-> "storage"]

\* What a handler leaves behind: the tables, what the caller gets, and the
\* number of identifiers drawn from crypto.randomUUID() so far.
Outcome(db, ret, u) == [db |-> db, ret |-> ret, uuid |-> u]

Committed(r, okret, u) == Outcome(r.db, IF r.ok THEN okret ELSE Throw, u)

(* ---------------------------- query layer ------------------------------ *)
\* data: [type, amount, from_account_id, to_account_id, category_id,
\* description]; u: identifiers drawn so far; failAfter: the storage failure
\* of this call (0: none).

\* createSplitStatements with the category of an INCOME bound to its DEBIT
\* split instead of its CREDIT split.
createSplitStatements_incomeDebit(data, amount, newTxId, u) ==
    IF data.type = "EXPENSE" THEN
        <<InsertSplit(u + 2, newTxId, data.from_account_id, data.category_id, amount, "DEBIT"),
          InsertSplit(u + 3, newTxId, data.from_account_id, NULL, -amount, "CREDIT"),
          UpdateBalance(-amount, data.from_account_id)>>
    ELSE IF data.type = "INCOME" THEN
        <<InsertSplit(u + 2, newTxId, data.to_account_id, data.category_id, amount, "DEBIT"),
          InsertSplit(u + 3, newTxId, data.to_account_id, NULL, -amount, "CREDIT"),
          UpdateBalance(amount, data.to_account_id)>>
    ELSE IF data.type = "TRANSFER" THEN
        <<InsertSplit(u + 2, newTxId, data.to_account_id, NULL, amount, "DEBIT"),
          InsertSplit(u + 3, newTxId, data.from_account_id, NULL, -amount, "CREDIT"),
          UpdateBalance(amount, data.to_account_id),
          UpdateBalance(-amount, data.from_account_id)>>
    ELSE <<>>

\* createSplitStatements with the negation of the CREDIT split of an
\* EXPENSE dropped.
createSplitStatements_sameSign(data, amount, newTxId, u) ==
    IF data.type = "EXPENSE" THEN
        <<InsertSplit(u + 2, newTxId, data.from_account_id, data.category_id, amount, "DEBIT"),
          InsertSplit(u + 3, newTxId, data.from_account_id, NULL, amount, "CREDIT"),
          UpdateBalance(-amount, data.from_account_id)>>
    ELSE IF data.type = "INCOME" THEN
        <<InsertSplit(u + 2, newTxId, data.to_account_id, NULL, amount, "DEBIT"),
          InsertSplit(u + 3, newTxId, data.to_account_id, data.category_id, -amount, "CREDIT"),
          UpdateBalance(amount, data.to_account_id)>>
    ELSE IF data.type = "TRANSFER" THEN
        <<InsertSplit(u + 2, newTxId, data.to_account_id, NULL, amount, "DEBIT"),
          InsertSplit(u + 3, newTxId, data.from_account_id, NULL, -amount, "CREDIT"),
          UpdateBalance(amount, data.to_account_id),
          UpdateBalance(-amount, data.from_account_id)>>
    ELSE <<>>

\* createSplitStatements with the source-account update of a TRANSFER
\* left out.
createSplitStatements_oneSided(data, amount, newTxId, u) ==
    IF data.type = "EXPENSE" THEN
        <<InsertSplit(u + 2, newTxId, data.from_account_id, data.category_id, amount, "DEBIT"),
          InsertSplit(u + 3, newTxId, data.from_account_id, NULL, -amount, "CREDIT"),
          UpdateBalance(-amount, data.from_account_id)>>
    ELSE IF data.type = "INCOME" THEN
        <<InsertSplit(u + 2, newTxId, data.to_account_id, NULL, amount, "DEBIT"),
          InsertSplit(u + 3, newTxId, data.to_account_id, data.category_id, -amount, "CREDIT"),
          UpdateBalance(amount, data.to_account_id)>>
    ELSE IF data.type = "TRANSFER" THEN
        <<InsertSplit(u + 2, newTxId, data.to_account_id, NULL, amount, "DEBIT"),
          InsertSplit(u + 3, newTxId, data.from_account_id, NULL, -amount, "CREDIT"),
          UpdateBalance(amount, data.to_account_id)>>
    ELSE <<>>

\* The split inserts and balance updates createTransaction pushes for the
\* type of data; none for an unknown type.
createSplitStatements(data, amount, newTxId, u) ==
    IF data.type = "EXPENSE" THEN
        <<InsertSplit(u + 2, newTxId, data.from_account_id, data.category_id, amount, "DEBIT"),
          InsertSplit(u + 3, newTxId, data.from_account_id, NULL, -amount, "CREDIT"),
          UpdateBalance(-amount, data.from_account_id)>>
    ELSE IF data.type = "INCOME" THEN
        <<InsertSplit(u + 2, newTxId, data.to_account_id, NULL, amount, "DEBIT"),
          InsertSplit(u + 3, newTxId, data.to_account_id, data.category_id, -amount, "CREDIT"),
          UpdateBalance(amount, data.to_account_id)>>
    ELSE IF data.type = "TRANSFER" THEN
        <<InsertSplit(u + 2, newTxId, data.to_account_id, NULL, amount, "DEBIT"),
          InsertSplit(u + 3, newTxId, data.from_account_id, NULL, -amount, "CREDIT"),
          UpdateBalance(amount, data.to_account_id),
          UpdateBalance(-amount, data.from_account_id)>>
    ELSE <<>>

\* createTransaction with the check of the rounded amount left out.
createTransaction_unchecked(db, data, u, failAfter) ==
    LET amount == MathRound(data.amount)
        newTxId == u + 1
        batch == <<InsertTransaction(newTxId, data.description)>>
        pushed == createSplitStatements(data, amount, newTxId, u)
    IN IF pushed = <<>> THEN Outcome(db, Error("Invalid transaction type"), u + 1)
       ELSE Committed(DbBatch(db, batch \o pushed, failAfter), Ok, u + 3)

\* createTransaction with every statement run on its own instead of in one
\* db.batch.
createTransaction_unbatched(db, data, u, failAfter) ==
    LET amount == MathRound(data.amount)
        newTxId == u + 1
        batch == <<InsertTransaction(newTxId, data.description)>>
        pushed == createSplitStatements(data, amount, newTxId, u)
    IN IF amount = 0 \/ amount <= 0 THEN Outcome(db, Error("Invalid amount"), u)
       ELSE IF pushed = <<>> THEN Outcome(db, Error("Invalid transaction type"), u + 1)
       ELSE Committed(RunEach(db, batch \o pushed, failAfter), Ok, u + 3)

createTransaction(db, data, u, failAfter) ==
    LET amount == MathRound(data.amount)
        newTxId == u + 1
        batch == <<InsertTransaction(newTxId, data.description)>>
        pushed == createSplitStatements(data, amount, newTxId, u)
    IN IF amount = 0 \/ amount <= 0 THEN Outcome(db, Error("Invalid amount"), u)
       ELSE IF pushed = <<>> THEN Outcome(db, Error("Invalid transaction type"), u + 1)
       ELSE Committed(DbBatch(db, batch \o pushed, failAfter), Ok, u + 3)

\* ReverseBalances with the split amount added back instead of subtracted.
RECURSIVE ReverseBalances_added(_)
ReverseBalances_added(rows) ==
    IF rows = <<>> THEN <<>>
    ELSE (IF Head(rows).account_id # NULL
          THEN <<UpdateBalance(Head(rows).amount, Head(rows).account_id)>>
          ELSE <<>>) \o ReverseBalances_added(Tail(rows))

\* The balance reversals built from the selected split rows.
RECURSIVE ReverseBalances(_)
ReverseBalances(rows) ==
    IF rows = <<>> THEN <<>>
    ELSE (IF Head(rows).account_id # NULL
          THEN <<UpdateBalance(-Head(rows).amount, Head(rows).account_id)>>
          ELSE <<>>) \o ReverseBalances(Tail(rows))

\* deleteTransaction without the DELETE of the header row.
deleteTransaction_keepsHeader(db, transactionId, u, failAfter) ==
    LET splits == Rows(SplitsOf(db, transactionId))
    IN IF Len(splits) = 0
       THEN Outcome(db, Error("Transaction not found or has no splits."), u)
       ELSE Committed(DbBatch(db,
                ReverseBalances(splits) \o <<DeleteSplits(transactionId)>>,
                failAfter), Ok, u)

\* deleteTransaction with the check for an empty split selection left out.
deleteTransaction_noLookup(db, transactionId, u, failAfter) ==
    LET splits == Rows(SplitsOf(db, transactionId))
    IN Committed(DbBatch(db,
             ReverseBalances(splits) \o
             <<DeleteSplits(transactionId), DeleteTransactionRow(transactionId)>>,
             failAfter), Ok, u)

deleteTransaction(db, transactionId, u, failAfter) ==
    LET splits == Rows(SplitsOf(db, transactionId))
    IN IF Len(splits) = 0
       THEN Outcome(db, Error("Transaction not found or has no splits."), u)
       ELSE Committed(DbBatch(db,
                ReverseBalances(splits) \o
                <<DeleteSplits(transactionId), DeleteTransactionRow(transactionId)>>,
                failAfter), Ok, u)

\* The split inserts and balance updates updateTransaction pushes for the
\* type of data (its own copy of the create logic); none for an unknown type.
updateSplitStatements(data, newAmount, txId, u) ==
    IF data.type = "EXPENSE" THEN
        <<InsertSplit(u + 1, txId, data.from_account_id, data.category_id, newAmount, "DEBIT"),
          InsertSplit(u + 2, txId, data.from_account_id, NULL, -newAmount, "CREDIT"),
          UpdateBalance(-newAmount, data.from_account_id)>>
    ELSE IF data.type = "INCOME" THEN
        <<InsertSplit(u + 1, txId, data.to_account_id, NULL, newAmount, "DEBIT"),
          InsertSplit(u + 2, txId, data.to_account_id, data.category_id, -newAmount, "CREDIT"),
          UpdateBalance(newAmount, data.to_account_id)>>
    ELSE IF data.type = "TRANSFER" THEN
        <<InsertSplit(u + 1, txId, data.to_account_id, NULL, newAmount, "DEBIT"),
          InsertSplit(u + 2, txId, data.from_account_id, NULL, -newAmount, "CREDIT"),
          UpdateBalance(newAmount, data.to_account_id),
          UpdateBalance(-newAmount, data.from_account_id)>>
    ELSE <<>>

\* updateTransaction rewriting the amounts of the stored splits instead of
\* replacing the splits.
updateTransaction_inPlace(db, txId, data, u, failAfter) ==
    LET newAmount == MathRound(data.amount)
        oldSplits == Rows(SplitsOf(db, txId))
        pushed == updateSplitStatements(data, newAmount, txId, u)
        rewritten == {IF r.transaction_id = txId
                      THEN [r EXCEPT !.amount = IF r.amount > 0 THEN newAmount + 1
                                                ELSE -(newAmount + 1)]
                      ELSE r : r \in db.transaction_splits}
    IN IF newAmount = 0 \/ newAmount <= 0 THEN Outcome(db, Error("Invalid amount"), u)
       ELSE IF Len(oldSplits) = 0
       THEN Outcome(db, Error("Transaction not found or has no splits."), u)
       ELSE IF pushed = <<>> THEN Outcome(db, Error("Invalid transaction type"), u)
       ELSE Outcome([db EXCEPT !.transaction_splits = rewritten], Ok, u)

\* updateTransaction with the delete of the old splits left out of the
\* batch.
updateTransaction_keepsOld(db, txId, data, u, failAfter) ==
    LET newAmount == MathRound(data.amount)
        oldSplits == Rows(SplitsOf(db, txId))
        batch == ReverseBalances(oldSplits) \o
                 <<UpdateTransactionRow(txId, data.description)>>
        pushed == updateSplitStatements(data, newAmount, txId, u)
    IN IF newAmount = 0 \/ newAmount <= 0 THEN Outcome(db, Error("Invalid amount"), u)
       ELSE IF Len(oldSplits) = 0
       THEN Outcome(db, Error("Transaction not found or has no splits."), u)
       ELSE IF pushed = <<>> THEN Outcome(db, Error("Invalid transaction type"), u)
       ELSE Committed(DbBatch(db, batch \o pushed, failAfter), Ok, u + 2)

\* updateTransaction with every statement run on its own instead of in one
\* db.batch.
updateTransaction_unbatched(db, txId, data, u, failAfter) ==
    LET newAmount == MathRound(data.amount)
        oldSplits == Rows(SplitsOf(db, txId))
        batch == ReverseBalances(oldSplits) \o
                 <<DeleteSplits(txId), UpdateTransactionRow(txId, data.description)>>
        pushed == updateSplitStatements(data, newAmount, txId, u)
    IN IF newAmount = 0 \/ newAmount <= 0 THEN Outcome(db, Error("Invalid amount"), u)
       ELSE IF Len(oldSplits) = 0
       THEN Outcome(db, Error("Transaction not found or has no splits."), u)
       ELSE IF pushed = <<>> THEN Outcome(db, Error("Invalid transaction type"), u)
       ELSE Committed(RunEach(db, batch \o pushed, failAfter), Ok, u + 2)

updateTransaction(db, txId, data, u, failAfter) ==
    LET newAmount == MathRound(data.amount)
        oldSplits == Rows(SplitsOf(db, txId))
        batch == ReverseBalances(oldSplits) \o
                 <<DeleteSplits(txId), UpdateTransactionRow(txId, data.description)>>
        pushed == updateSplitStatements(data, newAmount, txId, u)
    IN IF newAmount = 0 \/ newAmount <= 0 THEN Outcome(db, Error("Invalid amount"), u)
       ELSE IF Len(oldSplits) = 0
       THEN Outcome(db, Error("Transaction not found or has no splits."), u)
       ELSE IF pushed = <<>> THEN Outcome(db, Error("Invalid transaction type"), u)
       ELSE Committed(DbBatch(db, batch \o pushed, failAfter), Ok, u + 2)

(* ---------------------------- batch route ------------------------------ *)
\* The statements the loop of POST /:bookId/transactions/batch stages for
\* items i..Len(items); skipped items stage nothing.
RECURSIVE BatchStatements(_, _, _)
BatchStatements(items, i, u) ==
    IF i > Len(items) THEN [stmts |-> <<>>, uuid |-> u]
    ELSE LET item == items[i]
         IN IF \/ item.amount = 0
               \/ item.category_id = NULL
               \/ item.from_account_id = NULL
               \/ item.description = NULL
               \/ item.type # "EXPENSE"
            THEN BatchStatements(items, i + 1, u)
            ELSE LET newTxId == u + 1
                     amount == MathRound(MathAbs(item.amount))
                     rest == BatchStatements(items, i + 1, u + 3)
                 IN [stmts |->
                       <<InsertTransaction(newTxId, item.description),
                         InsertSplit(u + 2, newTxId, item.from_account_id, item.category_id, amount, "DEBIT"),
                         InsertSplit(u + 3, newTxId, item.from_account_id, NULL, -amount, "CREDIT"),
                         UpdateBalance(-amount, item.from_account_id)>> \o rest.stmts,
                     uuid |-> rest.uuid]

\* The response carries a status and, on success, a count; errors is the
\* set of item positions it reports as failed: the body has no such field.
Response(status, count) == [status |-> status, count |-> count, errors |-> {}]

\* batchRoute with every staged statement run on its own instead of in one
\* DB.batch.
batchRoute_unbatched(db, items, u, failAfter) ==
    IF Len(items) = 0 THEN Outcome(db, Response(400, 0), u)
    ELSE LET staged == BatchStatements(items, 1, u)
             statements == staged.stmts
         IN IF Len(statements) = 0 THEN Outcome(db, Response(400, 0), u)
            ELSE LET r == RunEach(db, statements, failAfter)
                 IN IF r.ok
                    THEN Outcome(r.db, Response(200, Len(statements) \div 4), staged.uuid)
                    ELSE Outcome(r.db, Response(500, 0), staged.uuid)

batchRoute(db, items, u, failAfter) ==
    IF Len(items) = 0 THEN Outcome(db, Response(400, 0), u)
    ELSE LET staged == BatchStatements(items, 1, u)
             statements == staged.stmts
         IN IF Len(statements) = 0 THEN Outcome(db, Response(400, 0), u)
            ELSE LET r == DbBatch(db, statements, failAfter)
                 IN IF r.ok
                    THEN Outcome(r.db, Response(200, Len(statements) \div 4), staged.uuid)
                    ELSE Outcome(r.db, Response(500, 0), staged.uuid)

(* ---------------------------- accounts --------------------------------- *)
\* deleteAccount: refused for a stored account with a non-zero balance;
\* otherwise one DELETE statement, which either runs or, on a storage
\* failure, throws and changes nothing.
\* createAccount: one INSERT with the opening balance converted to cents;
\* newId is the identifier drawn for the account.
createAccount(db, data, newId, u, failAfter) ==
    LET balanceInCents == MathRound(data.balance * 100)
        r == RunEach(db, <<InsertAccount(newId, data.name, balanceInCents)>>, 0)
    IN IF failAfter > 0 THEN Outcome(db, Throw, u) ELSE Committed(r, Ok, u)

\* updateAccount with the balance among the columns it sets.
updateAccount_setsBalance(db, accountId, data, u, failAfter) ==
    LET r == RunEach(db, <<UpdateAccountRow(accountId, data.name)>>, 0)
    IN IF failAfter > 0 THEN Outcome(db, Throw, u)
       ELSE IF r.ok /\ accountId \in DOMAIN r.db.accounts
       THEN Outcome([r.db EXCEPT !.accounts[accountId] = MathRound(data.balance * 100)], Ok, u)
       ELSE Committed(r, Ok, u)

\* updateAccount: one UPDATE of name, type and is_archived.
updateAccount(db, accountId, data, u, failAfter) ==
    LET r == RunEach(db, <<UpdateAccountRow(accountId, data.name)>>, 0)
    IN IF failAfter > 0 THEN Outcome(db, Throw, u) ELSE Committed(r, Ok, u)

deleteAccount(db, accountId, u, failAfter) ==
    IF accountId \in DOMAIN db.accounts /\ db.accounts[accountId] # 0
    THEN Outcome(db, Error("Cannot delete account with a non-zero balance."), u)
    ELSE IF failAfter > 0 THEN Outcome(db, Throw, u)
    ELSE Outcome(Exec(db, DeleteAccountRow(accountId)), Ok, u)

(* ---------------------------- model layer ------------------------------ *)
\* TransactionModel of src/models/additional.js.  transactionData:
\* [type, amount, accountId, toAccountId, categoryId, description]; the
\* amount is in currency units and is stored in cents.

\* The splits createTransactionSplits builds for the type.
TransactionModel_splits(transactionData) ==
    LET amount == MathRound(transactionData.amount * 100)
    IN CASE transactionData.type = "INCOME" ->
              <<[accountId |-> transactionData.accountId,
                 categoryId |-> transactionData.categoryId,
                 amount |-> amount, type |-> "DEBIT"]>>
         [] transactionData.type = "EXPENSE" ->
              <<[accountId |-> transactionData.accountId,
                 categoryId |-> transactionData.categoryId,
                 amount |-> -amount, type |-> "CREDIT"]>>
         [] transactionData.type = "TRANSFER" ->
              <<[accountId |-> transactionData.toAccountId, categoryId |-> NULL,
                 amount |-> amount, type |-> "DEBIT"],
                [accountId |-> transactionData.accountId, categoryId |-> NULL,
                 amount |-> -amount, type |-> "CREDIT"]>>
         [] OTHER -> <<>>

\* The statements of the loop of createTransactionSplits: for each split its
\* insert, then the balance update of its account.
RECURSIVE TransactionModel_createTransactionSplits(_, _, _)
TransactionModel_createTransactionSplits(transactionId, splits, u) ==
    IF splits = <<>> THEN <<>>
    ELSE LET split == Head(splits)
         IN <<InsertSplit(u + 1, transactionId, split.accountId, split.categoryId,
                          split.amount, split.type),
              UpdateBalance(split.amount, split.accountId)>>
            \o TransactionModel_createTransactionSplits(transactionId, Tail(splits), u + 1)

\* TransactionModel.create with its statements issued as one db.batch.
TransactionModel_create_batched(db, transactionData, u, failAfter) ==
    LET id == u + 1
        splits == TransactionModel_splits(transactionData)
        statements == <<InsertTransaction(id, transactionData.description)>>
                      \o TransactionModel_createTransactionSplits(id, splits, id)
    IN Committed(DbBatch(db, statements, failAfter), Ok, id + Len(splits))

\* TransactionModel.create: the header insert, then createTransactionSplits,
\* every statement awaited on its own.
TransactionModel_create(db, transactionData, u, failAfter) ==
    LET id == u + 1
        splits == TransactionModel_splits(transactionData)
        statements == <<InsertTransaction(id, transactionData.description)>>
                      \o TransactionModel_createTransactionSplits(id, splits, id)
    IN Committed(RunEach(db, statements, failAfter), Ok, id + Len(splits))

\* TransactionModel.createBatch from item i on: create is awaited for each
\* item inside try/catch, a throw adds the item to errors and the loop goes
\* on with whatever the failed create has stored.  fails[i] is the storage
\* failure of the create of item i.
RECURSIVE TransactionModel_createBatch(_, _, _, _, _, _)
TransactionModel_createBatch(db, items, i, u, fails, errors) ==
    IF i > Len(items)
    THEN Outcome(db, [kind |-> "ok", message |-> "", status |-> 201,
                      successCount |-> Len(items) - Cardinality(errors),
                      errors |-> errors], u)
    ELSE LET out == TransactionModel_create(db, items[i], u, fails[i])
         IN TransactionModel_createBatch(out.db, items, i + 1, out.uuid, fails,
                IF out.ret.kind = "throw" THEN errors \cup {i} ELSE errors)

\* TransactionModel.update: one UPDATE of the header columns named by
\* updateData (here the description; NULL is an updateData without fields,
\* which throws before any statement).  The statement either runs or, on a
\* storage failure, throws and changes nothing.
TransactionModel_update(db, transactionId, updateData, u, failAfter) ==
    IF updateData = NULL \/ failAfter > 0 THEN Outcome(db, Throw, u)
    ELSE Outcome(Exec(db, UpdateTransactionRow(transactionId, updateData)), Ok, u)

\* TransactionModel.delete's reversals with the split amount added instead
\* of subtracted.
RECURSIVE TransactionModel_reverse_added(_)
TransactionModel_reverse_added(rows) ==
    IF rows = <<>> THEN <<>>
    ELSE <<UpdateBalance(Head(rows).amount, Head(rows).account_id)>>
         \o TransactionModel_reverse_added(Tail(rows))

\* The balance reversals of TransactionModel.delete, one per selected split.
RECURSIVE TransactionModel_reverse(_)
TransactionModel_reverse(rows) ==
    IF rows = <<>> THEN <<>>
    ELSE <<UpdateBalance(-Head(rows).amount, Head(rows).account_id)>>
         \o TransactionModel_reverse(Tail(rows))

\* TransactionModel.delete: the reversals, the split delete and the header
\* delete, every statement awaited on its own; no test that the transaction
\* exists.
TransactionModel_delete(db, transactionId, u, failAfter) ==
    LET splits == Rows(SplitsOf(db, transactionId))
        statements == TransactionModel_reverse(splits) \o
                      <<DeleteSplits(transactionId), DeleteTransactionRow(transactionId)>>
    IN Committed(RunEach(db, statements, failAfter), Ok, u)

(* ---------------------------- inputs ----------------------------------- *)
Intent(type, amount, from, to, category, description) ==
    [type |-> type, amount |-> amount, from_account_id |-> from,
     to_account_id |-> to, category_id |-> category, description |-> description]

\* Request bodies.  A field the handler does not read for the type is null.
\* Well-formed bodies: a positive whole amount with its description.
Labelled == {<<10, "d1">>, <<20, "d2">>}

WellFormed ==
    {Intent("EXPENSE", x[1], f, NULL, "c1", x[2]) : x \in Labelled, f \in AccountIds}
    \cup {Intent("INCOME", x[1], NULL, t, "c1", x[2]) : x \in Labelled, t \in AccountIds}
    \cup {Intent("TRANSFER", x[1], p[1], p[2], NULL, x[2]) :
             x \in Labelled, p \in {q \in AccountIds \X AccountIds : q[1] # q[2]}}
    \cup {Intent("TRANSFER", 10, "A", "A", NULL, "d1"),
          Intent("EXPENSE", 10, "A", NULL, NULL, "d1")}

\* Bodies with a non-positive or fractional amount, an unknown type or a
\* missing account.
Malformed ==
    {Intent("EXPENSE", a, "A", NULL, "c1", "d1") : a \in RawAmounts \ {10, 20}}
    \cup {Intent("REFUND", 10, "A", NULL, "c1", "d1"),
          Intent("EXPENSE", 10, NULL, NULL, "c1", "d1"),
          Intent("TRANSFER", 10, "A", NULL, NULL, "d1")}

\* Bodies that name an account or a category their type has no use for.
Miscounted ==
    {Intent("EXPENSE", 10, "A", "B", "c1", "d1"),
     Intent("TRANSFER", 10, "A", "B", "c1", "d1")}

Intents == WellFormed \cup Malformed \cup Miscounted

TransactionData(type, amount, accountId, toAccountId, categoryId, description) ==
    [type |-> type, amount |-> amount, accountId |-> accountId,
     toAccountId |-> toAccountId, categoryId |-> categoryId,
     description |-> description]

\* Bodies that pass TransactionCreateSchema: a positive amount, an account,
\* and a destination account for a TRANSFER only.
ValidatedData ==
    {TransactionData(t, x[1], a, NULL, "c1", x[2]) :
        t \in {"INCOME", "EXPENSE"}, x \in Labelled, a \in AccountIds}
    \cup {TransactionData("TRANSFER", x[1], p[1], p[2], NULL, x[2]) :
             x \in Labelled, p \in {q \in AccountIds \X AccountIds : q[1] # q[2]}}

RECURSIVE SeqsUpTo(_, _)
SeqsUpTo(S, n) ==
    IF n = 0 THEN {<<>>}
    ELSE LET shorter == SeqsUpTo(S, n - 1)
         IN shorter \cup {Append(q, x) : q \in {p \in shorter : Len(p) = n - 1}, x \in S}

\* Items of a batch request: expenses of account A, one per amount.
BatchItems ==
    {Intent("EXPENSE", a, "A", NULL, "c1", "d1") : a \in RawAmounts \ {20}}

Batches == SeqsUpTo(BatchItems, MaxBatch)

Fails == 0 .. MaxFail

(* ---------------------------- state machine ---------------------------- *)
\* last records the most recent handler call: its name, its argument, the
\* transaction it addressed, the tables before it ran and what it returned;
\* base holds, when the call just before was the createTransaction that made
\* that same transaction, the tables before that create and its argument.
NoCall ==
    [op |-> "none", data |-> NULL, tx |-> 0, pre |-> NULL, ret |-> Ok,
     status |-> 0, base |-> <<>>]

\* The concurrent callers of createTransaction, none of them started.
Procs == {1, 2}
Idle ==
    [pc |-> "idle", op |-> "none", data |-> <<>>, batch |-> <<>>, ok |-> FALSE,
     overlapped |-> FALSE]

\* The status a route answers with for what the query function returned:
\* onError for a thrown error, whenError for an { error } value, otherwise
\* whenOk.
RouteStatus(ret, whenError, whenOk) ==
    IF ret.kind = "throw" THEN 500
    ELSE IF ret.kind = "error" THEN whenError ELSE whenOk

Init ==
    /\ accounts \in {f \in [AccountIds -> OpeningBalances] : f["A"] = 0}
    /\ opening = accounts
    /\ account_names = [a \in AccountIds |-> "n1"]
    /\ transactions = <<>>
    /\ transaction_splits = {}
    /\ uuid = 0
    /\ last = NoCall
    /\ calls = [p \in Procs |-> Idle]
    /\ sockets = [s \in {} |-> NULL]
    /\ rooms = [b \in {} |-> {}]

Install(out, call) ==
    /\ accounts' = out.db.accounts
    /\ account_names' = out.db.account_names
    /\ transactions' = out.db.transactions
    /\ transaction_splits' = out.db.transaction_splits
    /\ uuid' = out.uuid
    /\ UNCHANGED <<opening, calls, sockets, rooms>>
    /\ last' = call

CreateTransaction ==
    /\ uuid < MaxUuid
    /\ \E data \in Intents, failAfter \in Fails :
         LET out == createTransaction(DB, data, uuid, failAfter)
         IN Install(out, [op |-> "create", data |-> data, tx |-> uuid + 1,
                          pre |-> DB, ret |-> out.ret,
                          status |-> RouteStatus(out.ret, 400, 201), base |-> <<>>])

\* The tables before the create that the previous call was, when the
\* previous call created transaction tx and succeeded.
BaseFor(tx) ==
    IF last.op = "create" /\ last.tx = tx /\ last.ret.kind = "ok"
    THEN <<[pre |-> last.pre, data |-> last.data]>> ELSE <<>>

\* Transaction ids a request can name: a stored one, one never issued, and
\* the one the previous request deleted.
TxIds ==
    DOMAIN transactions \cup {uuid + 1}
        \cup (IF last.op = "delete" THEN {last.tx} ELSE {})

UpdateTransaction ==
    /\ uuid < MaxUuid
    /\ \E txId \in TxIds, data \in Intents, failAfter \in Fails :
         LET out == updateTransaction(DB, txId, data, uuid, failAfter)
         IN Install(out, [op |-> "update", data |-> data, tx |-> txId,
                          pre |-> DB, ret |-> out.ret,
                          status |-> RouteStatus(out.ret, 400, 200),
                          base |-> BaseFor(txId)])

DeleteTransaction ==
    \E transactionId \in TxIds, failAfter \in Fails :
        LET out == deleteTransaction(DB, transactionId, uuid, failAfter)
        IN Install(out, [op |-> "delete", data |-> NULL, tx |-> transactionId,
                         pre |-> DB, ret |-> out.ret,
                         status |-> RouteStatus(out.ret, 404, 200),
                         base |-> BaseFor(transactionId)])

BatchCreate ==
    /\ uuid < MaxUuid
    /\ \E items \in Batches, failAfter \in Fails :
         LET out == batchRoute(DB, items, uuid, failAfter)
         IN Install(out, [op |-> "batch", data |-> items, tx |-> 0,
                          pre |-> DB, ret |-> out.ret,
                          status |-> out.ret.status, base |-> <<>>])

Next == CreateTransaction \/ UpdateTransaction \/ DeleteTransaction \/ BatchCreate

Spec == Init /\ [][Next]_vars

\* The three query-layer functions alone.
QueryNext == CreateTransaction \/ UpdateTransaction \/ DeleteTransaction

QuerySpec == Init /\ [][QueryNext]_vars

DeleteAccount ==
    \E accountId \in AccountIds, failAfter \in Fails :
        LET out == deleteAccount(DB, accountId, uuid, failAfter)
        IN Install(out, [op |-> "deleteAccount", data |-> accountId, tx |-> 0,
                         pre |-> DB, ret |-> out.ret,
                         status |-> RouteStatus(out.ret, 400, 200), base |-> <<>>])

\* Request bodies of the account routes: a name and an opening balance in
\* currency units (tenths, as amounts are).
AccountBodies == {[name |-> "n2", balance |-> b] : b \in OpeningBalances}

\* newId stands for the identifier drawn from crypto.randomUUID(): any id no
\* stored account has.
CreateAccount ==
    \E data \in AccountBodies, newId \in AccountIds \ DOMAIN accounts, failAfter \in Fails :
        LET out == createAccount(DB, data, newId, uuid, failAfter)
        IN Install(out, [op |-> "createAccount", data |-> newId, tx |-> 0,
                         pre |-> DB, ret |-> out.ret,
                         status |-> RouteStatus(out.ret, 500, 201), base |-> <<>>])

UpdateAccount ==
    \E accountId \in AccountIds, data \in AccountBodies, failAfter \in Fails :
        LET out == updateAccount(DB, accountId, data, uuid, failAfter)
        IN Install(out, [op |-> "updateAccount", data |-> accountId, tx |-> 0,
                         pre |-> DB, ret |-> out.ret,
                         status |-> RouteStatus(out.ret, 500, 200), base |-> <<>>])

\* The transaction functions together with the deletion of accounts.
AccountNext ==
    CreateTransaction \/ UpdateTransaction \/ DeleteTransaction \/ DeleteAccount

\* The account functions together with the creation of transactions.
ChartNext ==
    CreateTransaction \/ CreateAccount \/ UpdateAccount \/ DeleteAccount

ChartSpec == Init /\ [][ChartNext]_vars

AccountSpec == Init /\ [][AccountNext]_vars

ModelCreate ==
    /\ uuid + 2 <= MaxUuid
    /\ \E transactionData \in ValidatedData, failAfter \in Fails :
         LET out == TransactionModel_create(DB, transactionData, uuid, failAfter)
         IN Install(out, [op |-> "modelCreate", data |-> transactionData,
                          tx |-> uuid + 1, pre |-> DB, ret |-> out.ret,
                          status |-> RouteStatus(out.ret, 500, 201), base |-> <<>>])

\* The tables before the TransactionModel.create that the previous call
\* was, when the previous call created transaction tx and succeeded.
ModelBaseFor(tx) ==
    IF last.op = "modelCreate" /\ last.tx = tx /\ last.ret.kind = "ok"
    THEN <<[pre |-> last.pre, data |-> last.data]>> ELSE <<>>

\* A delete that fails half way has moved balances and can be repeated
\* without end; failures are injected while no balance is further than
\* MaxDrift units from its opening value.
WithinDrift ==
    \A a \in AccountIds : MathAbs(accounts[a] - opening[a]) <= MaxDrift * 100

ModelDelete ==
    \E transactionId \in TxIds, failAfter \in Fails :
        /\ failAfter > 0 => WithinDrift
        /\ LET out == TransactionModel_delete(DB, transactionId, uuid, failAfter)
           IN Install(out, [op |-> "modelDelete", data |-> NULL, tx |-> transactionId,
                            pre |-> DB, ret |-> out.ret,
                            status |-> RouteStatus(out.ret, 500, 200),
                            base |-> ModelBaseFor(transactionId)])

\* The updateData of TransactionModel.update: a new description, or no
\* field at all.
UpdateDatas == {"d2", NULL}

ModelUpdate ==
    \E transactionId \in TxIds, updateData \in UpdateDatas, failAfter \in Fails :
        LET out == TransactionModel_update(DB, transactionId, updateData, uuid, failAfter)
        IN Install(out, [op |-> "modelUpdate", data |-> updateData, tx |-> transactionId,
                         pre |-> DB, ret |-> out.ret,
                         status |-> RouteStatus(out.ret, 500, 200), base |-> <<>>])

\* The model layer alone.
ModelNext == ModelCreate \/ ModelDelete

ModelSpec == Init /\ [][ModelNext]_vars

\* Items of a request to POST /books/:bookId/batch, which passes them to
\* createBatch without schema validation: an expense, a transfer, and a
\* transfer without destination account.
ModelBatchItems ==
    {TransactionData("EXPENSE", 10, "A", NULL, "c1", "d1"),
     TransactionData("TRANSFER", 10, "A", "B", NULL, "d1"),
     TransactionData("TRANSFER", 10, "A", NULL, NULL, "d1")}

ModelBatches == SeqsUpTo(ModelBatchItems, MaxBatch) \ {<<>>}

ModelCreateBatch ==
    /\ uuid < MaxUuid
    /\ \E items \in ModelBatches :
         \E fails \in [1 .. Len(items) -> Fails] :
            LET out == TransactionModel_createBatch(DB, items, 1, uuid, fails, {})
            IN Install(out, [op |-> "modelBatch", data |-> items, tx |-> uuid + 1,
                             pre |-> DB, ret |-> out.ret, status |-> out.ret.status,
                             base |-> <<>>])

\* The batch creation of the model layer together with its single creation.
ModelBatchNext == ModelCreate \/ ModelCreateBatch

ModelBatchSpec == Init /\ [][ModelBatchNext]_vars

\* The query-layer operations together with the header update of the model
\* layer.
LedgerNext == QueryNext \/ ModelUpdate

LedgerSpec == Init /\ [][LedgerNext]_vars

\* Two callers of createTransaction at once.  Begin is createTransaction up
\* to its await: the amount and type checks, the identifiers and the
\* statements.  Commit is the awaited db.batch of the caller.
Begin(p) ==
    /\ calls[p].pc = "idle"
    /\ uuid < MaxUuid
    /\ \E data \in Intents :
         LET amount == MathRound(data.amount)
             newTxId == uuid + 1
             batch == <<InsertTransaction(newTxId, data.description)>>
             pushed == createSplitStatements(data, amount, newTxId, uuid)
             returned == [Idle EXCEPT !.pc = "done", !.op = "create", !.data = <<data>>]
         IN IF amount = 0 \/ amount <= 0
            THEN calls' = [calls EXCEPT ![p] = returned] /\ UNCHANGED uuid
            ELSE IF pushed = <<>>
            THEN calls' = [calls EXCEPT ![p] = returned] /\ uuid' = uuid + 1
            ELSE /\ calls' = [calls EXCEPT ![p] =
                                [returned EXCEPT !.pc = "batch", !.batch = batch \o pushed]]
                 /\ uuid' = uuid + 3
    /\ UNCHANGED <<accounts, account_names, transactions, transaction_splits, opening, last,
                   sockets, rooms>>

Commit(p) ==
    /\ calls[p].pc = "batch"
    /\ \E failAfter \in Fails :
         LET r == DbBatch(DB, calls[p].batch, failAfter)
         IN /\ accounts' = r.db.accounts
            /\ account_names' = r.db.account_names
            /\ transactions' = r.db.transactions
            /\ transaction_splits' = r.db.transaction_splits
            /\ calls' = [calls EXCEPT ![p].pc = "done", ![p].ok = r.ok,
                           ![p].overlapped = \E q \in Procs \ {p} : calls[q].pc = "batch"]
    /\ UNCHANGED <<uuid, opening, last, sockets, rooms>>

ConcurrentNext == \E p \in Procs : Begin(p) \/ Commit(p)

ConcurrentSpec == Init /\ [][ConcurrentNext]_vars

\* Two callers of deleteTransaction or updateTransaction at once on the
\* transaction one createTransaction call has stored before.  CreateFirst is
\* that call, made while no other call has been made.
CreateFirst == last.op = "none" /\ CreateTransaction

\* deleteTransaction up to its db.batch: the SELECT of the splits, the
\* not-found return and the statements built from the rows read.
BeginDelete(p) ==
    /\ calls[p].pc = "idle"
    /\ last.op = "create"
    /\ LET splits == Rows(SplitsOf(DB, last.tx))
           returned == [Idle EXCEPT !.pc = "done", !.op = "delete"]
       IN IF Len(splits) = 0
          THEN calls' = [calls EXCEPT ![p] = returned]
          ELSE calls' = [calls EXCEPT ![p] =
                   [returned EXCEPT !.pc = "batch", !.batch =
                       ReverseBalances(splits) \o
                       <<DeleteSplits(last.tx), DeleteTransactionRow(last.tx)>>]]
    /\ UNCHANGED <<accounts, account_names, transactions, transaction_splits, uuid,
                   opening, last, sockets, rooms>>

\* updateTransaction up to its db.batch: the amount check, the SELECT of the
\* old splits, the not-found return and the statements built from the rows
\* read and from the body.
BeginUpdate(p) ==
    /\ calls[p].pc = "idle"
    /\ last.op = "create"
    /\ \E data \in Intents :
         LET newAmount == MathRound(data.amount)
             oldSplits == Rows(SplitsOf(DB, last.tx))
             batch == ReverseBalances(oldSplits) \o
                      <<DeleteSplits(last.tx), UpdateTransactionRow(last.tx, data.description)>>
             pushed == updateSplitStatements(data, newAmount, last.tx, uuid)
             returned == [Idle EXCEPT !.pc = "done", !.op = "update", !.data = <<data>>]
         IN IF newAmount = 0 \/ newAmount <= 0 \/ Len(oldSplits) = 0 \/ pushed = <<>>
            THEN calls' = [calls EXCEPT ![p] = returned] /\ UNCHANGED uuid
            ELSE /\ calls' = [calls EXCEPT ![p] =
                                [returned EXCEPT !.pc = "batch", !.batch = batch \o pushed]]
                 /\ uuid' = uuid + 2
    /\ UNCHANGED <<accounts, account_names, transactions, transaction_splits, opening, last,
                   sockets, rooms>>

RaceNext == CreateFirst \/ \E p \in Procs : BeginDelete(p) \/ BeginUpdate(p) \/ Commit(p)

RaceSpec == Init /\ [][RaceNext]_vars

(* ---------------------------- WebSocketManager ------------------------- *)
\* sockets maps a session id to its connection (userId, bookId) and rooms
\* maps a book id to the set of session ids in its room; ws is the pair.
\* Session ids are drawn like the other identifiers and never drawn twice.
BookIds == {"b1", "b2"}
Tokens == {"valid", "invalid"}

WS == [sockets |-> sockets, rooms |-> rooms]

\* handleLeaveBook: the session is deleted from the room of bookId when that
\* room exists, the room is deleted when it is left empty, and the
\* connection's bookId is cleared.
handleLeaveBook(ws, sessionId, bookId) ==
    IF sessionId \notin DOMAIN ws.sockets THEN ws
    ELSE LET left == IF bookId \in DOMAIN ws.rooms
                     THEN [b \in DOMAIN ws.rooms |->
                              IF b = bookId THEN ws.rooms[b] \ {sessionId} ELSE ws.rooms[b]]
                     ELSE ws.rooms
             kept == IF bookId \in DOMAIN left /\ left[bookId] = {}
                     THEN [b \in DOMAIN left \ {bookId} |-> left[b]]
                     ELSE left
         IN [sockets |-> [ws.sockets EXCEPT ![sessionId].bookId = NULL], rooms |-> kept]

\* handleJoinBook: nothing without a connection or a userId; otherwise the
\* room named by the connection's bookId is left, bookId is set and the
\* session is added to the room of bookId, created when absent.
handleJoinBook(ws, sessionId, bookId) ==
    IF sessionId \notin DOMAIN ws.sockets \/ ws.sockets[sessionId].userId = NULL THEN ws
    ELSE LET connection == ws.sockets[sessionId]
             after == IF connection.bookId # NULL
                      THEN handleLeaveBook(ws, sessionId, connection.bookId)
                      ELSE ws
         IN [sockets |-> [after.sockets EXCEPT ![sessionId].bookId = bookId],
             rooms |-> [b \in DOMAIN after.rooms \cup {bookId} |->
                           IF b = bookId
                           THEN (IF b \in DOMAIN after.rooms THEN after.rooms[b] ELSE {})
                                \cup {sessionId}
                           ELSE after.rooms[b]]]

\* handleDisconnect: the room named by the connection's bookId is left, then
\* the connection is deleted.
handleDisconnect(ws, sessionId) ==
    IF sessionId \notin DOMAIN ws.sockets THEN ws
    ELSE LET connection == ws.sockets[sessionId]
             after == IF connection.bookId # NULL
                      THEN handleLeaveBook(ws, sessionId, connection.bookId)
                      ELSE ws
         IN [sockets |-> [s \in DOMAIN after.sockets \ {sessionId} |-> after.sockets[s]],
             rooms |-> after.rooms]

\* handleAuthenticate: a token that verifies sets the userId of the
\* connection; any other token changes nothing.
handleAuthenticate(ws, sessionId, token) ==
    IF token = "valid" /\ sessionId \in DOMAIN ws.sockets
    THEN [ws EXCEPT !.sockets[sessionId].userId = "u1"]
    ELSE ws

\* The manager's maps become those of ws; the ledger is not touched.
Store(ws) ==
    /\ sockets' = ws.sockets
    /\ rooms' = ws.rooms
    /\ UNCHANGED <<accounts, account_names, transactions, transaction_splits, opening,
                   last, calls>>

\* handleWebSocket: a new session id and its connection, without user and
\* without book.
Connect ==
    /\ uuid < MaxSessions
    /\ uuid' = uuid + 1
    /\ Store([sockets |-> [s \in DOMAIN sockets \cup {uuid + 1} |->
                              IF s = uuid + 1 THEN [userId |-> NULL, bookId |-> NULL]
                              ELSE sockets[s]],
              rooms |-> rooms])

\* handleMessage drops a message of a session without connection.
Authenticate ==
    \E sessionId \in DOMAIN sockets, token \in Tokens :
        Store(handleAuthenticate(WS, sessionId, token)) /\ UNCHANGED uuid

JoinBook ==
    \E sessionId \in DOMAIN sockets, bookId \in BookIds :
        Store(handleJoinBook(WS, sessionId, bookId)) /\ UNCHANGED uuid

LeaveBook ==
    \E sessionId \in DOMAIN sockets, bookId \in BookIds :
        Store(handleLeaveBook(WS, sessionId, bookId)) /\ UNCHANGED uuid

Disconnect ==
    \E sessionId \in DOMAIN sockets :
        Store(handleDisconnect(WS, sessionId)) /\ UNCHANGED uuid

SocketNext == Connect \/ Authenticate \/ JoinBook \/ LeaveBook \/ Disconnect

SocketSpec == Init /\ [][SocketNext]_vars

(* ---------------------------- properties ------------------------------- *)
RECURSIVE SumAmounts(_)
SumAmounts(S) ==
    IF S = {} THEN 0
    ELSE LET r == CHOOSE x \in S : TRUE IN r.amount + SumAmounts(S \ {r})

\* The amount of a body whose amount is a whole number.
Whole(data) == data.amount % 10 = 0
Amount(data) == data.amount \div 10

\* Balance Applier contract: the delta of account a for a type, an amount
\* and the accounts named.
Delta(data, a) ==
    CASE data.type = "INCOME" -> IF a = data.to_account_id THEN Amount(data) ELSE 0
      [] data.type = "EXPENSE" -> IF a = data.from_account_id THEN -Amount(data) ELSE 0
      [] data.type = "TRANSFER" ->
           (IF a = data.to_account_id THEN Amount(data) ELSE 0)
           - (IF a = data.from_account_id THEN Amount(data) ELSE 0)
      [] OTHER -> 0

Succeeded(op) == last.op = op /\ last.ret.kind = "ok"
Failed(op) == last.op = op /\ last.ret.kind = "throw"

StoredTxIds == DOMAIN transactions \cup {r.transaction_id : r \in transaction_splits}

\* C1: every stored transaction has splits whose signed amounts sum to zero.
SplitSumZero ==
    \A tx \in StoredTxIds : SumAmounts(SplitsOf(DB, tx)) = 0

\* C1 witness: an update has replaced the two splits of a transaction that
\* the batch route had stored.
SplitSumZeroWitness ==
    /\ Succeeded("update")
    /\ Cardinality(SplitsOf(DB, last.tx)) = 2
    /\ \E r \in SplitsOf(DB, last.tx) : r.amount > 0
    /\ \E r \in SplitsOf(last.pre, last.tx) : r.category_id = "c1" /\ r.type = "DEBIT"

\* C2: createTransaction(I) for a well-formed I, followed by
\* deleteTransaction of the created transaction, leaves every balance as it
\* was before the create.
DeleteInvertsCreate ==
    (Succeeded("delete") /\ Len(last.base) = 1)
        => (last.base[1].data \in WellFormed => accounts = last.base[1].pre.accounts)

\* C3: createTransaction(I1) followed by updateTransaction(T, I2), for
\* well-formed I1 and I2, ends with the balances of createTransaction(I2)
\* run alone from the same starting tables.
UpdateEqualsFreshCreate ==
    (Succeeded("update") /\ Len(last.base) = 1)
        => ((last.base[1].data \in WellFormed /\ last.data \in WellFormed)
              => accounts = createTransaction(last.base[1].pre, last.data, 0, 0).db.accounts)

\* C4: an account opened with balance 0 has a balance equal to the sum of
\* the signed amounts of the splits stored against it.
BalanceIsSplitSum ==
    \A a \in AccountIds :
        opening[a] = 0 =>
            accounts[a] = SumAmounts({r \in transaction_splits : r.account_id = a})

\* C5: a createTransaction whose storage batch fails leaves no header, no
\* split and no balance change.
CreateAtomic ==
    Failed("create") => DB = last.pre

\* C5 witness: the batch of a well-formed create failed after its first
\* statements had run.
CreateAtomicWitness ==
    Failed("create") /\ last.data \in WellFormed

\* C6: updateTransaction is all or nothing.  When it does not succeed the
\* tables are as before; when it succeeds the reversal, the new splits, the
\* new deltas and the header change are all there.
UpdateAtomic ==
    /\ (last.op = "update" /\ last.ret.kind # "ok") => DB = last.pre
    /\ Succeeded("update") =>
         /\ SplitsOf(DB, last.tx) \cap last.pre.transaction_splits = {}
         /\ Cardinality(SplitsOf(DB, last.tx)) = 2
         /\ transactions[last.tx] = [description |-> last.data.description, updated |-> TRUE]
         /\ \A a \in AccountIds :
              accounts[a] = last.pre.accounts[a]
                  - SumAmounts({r \in SplitsOf(last.pre, last.tx) : r.account_id = a})
                  + Delta(last.data, a)

\* C6 witness: an update of a stored transaction failed in its batch.
UpdateAtomicWitness ==
    Failed("update") /\ SplitsOf(DB, last.tx) # {} /\ last.data \in WellFormed

\* C7: a successful createTransaction changes balances by the contract's
\* deltas only: +amount on the receiving account for INCOME, -amount on the
\* source for EXPENSE, both for TRANSFER (summing to zero), nothing else.
CreateDeltas ==
    (Succeeded("create") /\ Whole(last.data)) =>
        /\ \A a \in AccountIds : accounts[a] = last.pre.accounts[a] + Delta(last.data, a)
        /\ last.data.type = "TRANSFER" =>
             accounts["A"] + accounts["B"] = last.pre.accounts["A"] + last.pre.accounts["B"]

\* C7 witness: a transfer between two distinct accounts was created.
CreateDeltasWitness ==
    /\ Succeeded("create")
    /\ last.data.type = "TRANSFER"
    /\ last.data.from_account_id # last.data.to_account_id
    /\ accounts # last.pre.accounts

\* The loop of the batch route stages statements for this item.
Accepted(item) ==
    /\ item.amount # 0 /\ item.category_id # NULL /\ item.from_account_id # NULL
    /\ item.type = "EXPENSE"

CountWhere(items, P(_)) == Cardinality({i \in 1 .. Len(items) : P(items[i])})

\* C8: a batch request whose storage batch fails persists nothing.
BatchAtomic ==
    (last.op = "batch" /\ last.ret.status = 500) => DB = last.pre

\* C8 witness: the failed batch had staged two items.
BatchAtomicWitness ==
    /\ last.op = "batch" /\ last.ret.status = 500
    /\ CountWhere(last.data, Accepted) = 2

NonPositive(item) == item.amount <= 0
Positive(item) == item.amount > 0 /\ Whole(item)

Created == DOMAIN transactions \ DOMAIN last.pre.transactions

\* C9: a batch of N items with exactly one invalid item (a non-positive
\* amount) commits nothing, or commits N-1 transactions and reports the
\* invalid item as an error.
BatchIsolation ==
    (/\ last.op = "batch" /\ last.ret.status # 500
     /\ CountWhere(last.data, NonPositive) = 1
     /\ CountWhere(last.data, Positive) = Len(last.data) - 1)
        => \/ Cardinality(Created) = 0
           \/ /\ Cardinality(Created) = Len(last.data) - 1
              /\ \A i \in 1 .. Len(last.data) :
                   NonPositive(last.data[i]) => i \in last.ret.errors

RECURSIVE SumPositive(_)
SumPositive(items) ==
    IF items = <<>> THEN 0
    ELSE (IF Positive(Head(items)) THEN Amount(Head(items)) ELSE 0)
         + SumPositive(Tail(items))

\* C10: after a batch of expenses of account A with whole amounts, the
\* transactions created are those of the positive amounts and the balance
\* of A has dropped by exactly their sum.
BatchRejectsNonPositive ==
    (/\ last.op = "batch" /\ last.ret.status # 500
     /\ \A i \in 1 .. Len(last.data) : Whole(last.data[i]))
        => /\ Cardinality(Created) = CountWhere(last.data, Positive)
           /\ accounts["A"] = last.pre.accounts["A"] - SumPositive(last.data)

TxTypes == {"INCOME", "EXPENSE", "TRANSFER"}

\* A body with a zero or negative amount or a type outside the three.
InvalidIntent(data) == data.amount <= 0 \/ data.type \notin TxTypes

\* C11: createTransaction and updateTransaction called with a zero or
\* negative amount, or with a type outside INCOME, EXPENSE, TRANSFER,
\* return an error value and leave every balance, split and header as it
\* was.
InvalidIntentUntouched ==
    (last.op \in {"create", "update"} /\ InvalidIntent(last.data))
        => (last.ret.kind = "error" /\ DB = last.pre)

\* C11 witness: an update of a stored transaction to an unknown type was
\* turned down after its splits had been read.
InvalidIntentUntouchedWitness ==
    /\ last.op = "update"
    /\ last.data.type \notin TxTypes
    /\ SplitsOf(last.pre, last.tx) # {}
    /\ last.ret = Error("Invalid transaction type")

\* The accounts and the category of a body do not fit its type: a TRANSFER
\* without source or destination or with a category, an EXPENSE without
\* its account (from_account_id) or with a destination, an INCOME without
\* its account (to_account_id) or with a second account.
WrongCardinality(data) ==
    \/ /\ data.type = "TRANSFER"
       /\ \/ data.from_account_id = NULL
          \/ data.to_account_id = NULL
          \/ data.category_id # NULL
    \/ /\ data.type = "EXPENSE"
       /\ (data.from_account_id = NULL \/ data.to_account_id # NULL)
    \/ /\ data.type = "INCOME"
       /\ (data.to_account_id = NULL \/ data.from_account_id # NULL)

\* C12: a create body whose accounts or category do not fit its type is
\* turned down with an error value before anything is written.
CardinalityRejected ==
    (last.op = "create" /\ WrongCardinality(last.data))
        => (last.ret.kind = "error" /\ DB = last.pre)

NotFound == Error("Transaction not found or has no splits.")

\* The previous request was an update or a delete of a transaction that had
\* no stored split.
MissingTarget ==
    last.op \in {"update", "delete"} /\ SplitsOf(last.pre, last.tx) = {}

\* C13 as stated: updateTransaction and deleteTransaction for a transaction
\* without stored splits return the not-found error and change nothing.
NotFoundReported ==
    MissingTarget => (last.ret = NotFound /\ DB = last.pre)

\* C13: updateTransaction and deleteTransaction for a transaction without
\* stored splits change nothing and return an error value; the error is the
\* not-found error for every delete and for every update whose rounded
\* amount is positive (an update with a non-positive amount is turned down
\* for its amount before the splits are looked up).
NotFoundUnchanged ==
    MissingTarget =>
        /\ DB = last.pre
        /\ last.ret.kind = "error"
        /\ (last.op = "delete" \/ MathRound(last.data.amount) > 0) => last.ret = NotFound

\* C13 witness: the transaction deleted by the request before is deleted a
\* second time.
NotFoundUnchangedWitness ==
    /\ last.op = "delete"
    /\ last.tx <= uuid
    /\ last.tx \notin DOMAIN last.pre.transactions
    /\ last.ret = NotFound

\* C14: deleteAccount removes an account only if its balance is 0 and no
\* stored split has that account_id.
DeleteAccountGuarded ==
    (last.op = "deleteAccount" /\ last.data \in DOMAIN last.pre.accounts
                               /\ last.data \notin DOMAIN accounts)
        => /\ last.pre.accounts[last.data] = 0
           /\ \A r \in last.pre.transaction_splits : r.account_id # last.data

\* C15: a transaction persisted by TransactionModel.create, of type INCOME,
\* EXPENSE or TRANSFER, has splits whose signed amounts sum to zero.
ModelSplitSumZero ==
    Succeeded("modelCreate") => SumAmounts(SplitsOf(DB, last.tx)) = 0

\* C16: a TransactionModel.create or TransactionModel.delete one of whose
\* statements fails leaves no header, split or balance change of that call.
ModelAtomic ==
    (Failed("modelCreate") \/ Failed("modelDelete")) => DB = last.pre

\* The delta the finished call of p has applied to account a.
Applied(p, a) ==
    IF calls[p].pc = "done" /\ calls[p].ok THEN Delta(calls[p].data[1], a) ELSE 0

\* C17: with two createTransaction calls running at once, every balance is
\* at every moment its starting value plus the deltas of the calls whose
\* batch has committed; once both have committed it reflects both deltas.
ConcurrentCreatesBothApplied ==
    \A a \in AccountIds : accounts[a] = opening[a] + Applied(1, a) + Applied(2, a)

\* C17 witness: both calls have committed a change of account A, and one
\* committed while the other was between its preparation and its batch.
ConcurrentCreatesBothAppliedWitness ==
    /\ \A p \in Procs : calls[p].pc = "done" /\ calls[p].ok /\ Applied(p, "A") # 0
    /\ \E p \in Procs : calls[p].overlapped

\* C18: when updateTransaction or deleteTransaction reports that the
\* transaction was not found the route answers 404, and when an operation
\* reports an invalid amount or type the route answers 400.
ErrorStatuses ==
    /\ (last.op \in {"update", "delete"} /\ last.ret = NotFound) => last.status = 404
    /\ (last.op \in {"create", "update"} /\ last.ret.kind = "error" /\ last.ret # NotFound)
           => last.status = 400

\* The request before the previous one created, from body data, the
\* transaction the previous request addressed: a TRANSFER between two
\* distinct accounts.
AfterTransfer ==
    /\ Len(last.base) = 1
    /\ last.base[1].data.type = "TRANSFER"
    /\ last.base[1].data.from_account_id \in AccountIds
    /\ last.base[1].data.to_account_id \in AccountIds
    /\ last.base[1].data.from_account_id # last.base[1].data.to_account_id

\* C19: deleting a TRANSFER between two distinct accounts returns both
\* balances to their values before the transfer and removes its two splits
\* and its header.
TransferDeleteRestores ==
    (Succeeded("delete") /\ AfterTransfer) =>
        /\ accounts = last.base[1].pre.accounts
        /\ SplitsOf(DB, last.tx) = {}
        /\ last.tx \notin DOMAIN transactions

\* C19 witness: a transfer that had moved both balances was deleted.
TransferDeleteRestoresWitness ==
    /\ Succeeded("delete") /\ AfterTransfer
    /\ last.pre.accounts["A"] # last.base[1].pre.accounts["A"]
    /\ last.pre.accounts["B"] # last.base[1].pre.accounts["B"]
    /\ Cardinality(SplitsOf(last.pre, last.tx)) = 2

\* A split without its identifiers.
Row(account_id, category_id, amount, type) ==
    [account_id |-> account_id, category_id |-> category_id,
     amount |-> amount, type |-> type]

\* The stored splits of transaction tx without their identifiers.
StoredRows(tx) ==
    {Row(r.account_id, r.category_id, r.amount, r.type) : r \in SplitsOf(DB, tx)}

TransferRows(data) ==
    {Row(data.to_account_id, NULL, Amount(data), "DEBIT"),
     Row(data.from_account_id, NULL, -Amount(data), "CREDIT")}

ExpenseRows(data) ==
    {Row(data.from_account_id, data.category_id, Amount(data), "DEBIT"),
     Row(data.from_account_id, NULL, -Amount(data), "CREDIT")}

\* C20 as stated: the splits of a created INCOME are, on its account,
\* +amount DEBIT with the category and -amount CREDIT without; those of an
\* EXPENSE likewise on its account; those of a TRANSFER +amount DEBIT on the
\* destination and -amount CREDIT on the source, without category.
SignTableAsSpecified ==
    (Succeeded("create") /\ Whole(last.data)) =>
        /\ Cardinality(SplitsOf(DB, last.tx)) = 2
        /\ StoredRows(last.tx) =
             CASE last.data.type = "INCOME" ->
                    {Row(last.data.to_account_id, last.data.category_id, Amount(last.data), "DEBIT"),
                     Row(last.data.to_account_id, NULL, -Amount(last.data), "CREDIT")}
               [] last.data.type = "EXPENSE" -> ExpenseRows(last.data)
               [] last.data.type = "TRANSFER" -> TransferRows(last.data)

\* C20: the splits of a created EXPENSE are, on its account, +amount DEBIT
\* with the category and -amount CREDIT without; those of an INCOME are, on
\* its account, +amount DEBIT without category and -amount CREDIT with the
\* category; those of a TRANSFER are +amount DEBIT on the destination and
\* -amount CREDIT on the source, both without category.
SignTable ==
    (Succeeded("create") /\ Whole(last.data)) =>
        /\ Cardinality(SplitsOf(DB, last.tx)) = 2
        /\ StoredRows(last.tx) =
             CASE last.data.type = "INCOME" ->
                    {Row(last.data.to_account_id, NULL, Amount(last.data), "DEBIT"),
                     Row(last.data.to_account_id, last.data.category_id, -Amount(last.data), "CREDIT")}
               [] last.data.type = "EXPENSE" -> ExpenseRows(last.data)
               [] last.data.type = "TRANSFER" -> TransferRows(last.data)

\* C20 witness: an INCOME with a category was created.
SignTableWitness ==
    /\ Succeeded("create")
    /\ last.data.type = "INCOME" /\ last.data.category_id = "c1"
    /\ Cardinality(SplitsOf(DB, last.tx)) = 2

\* The splits, without identifiers, that createTransaction stores for body
\* data when run on tables db with u identifiers drawn.
CreatedRows(db, data, u) ==
    LET made == createTransaction(db, data, u, 0).db
    IN {Row(r.account_id, r.category_id, r.amount, r.type) : r \in SplitsOf(made, u + 1)}

\* C21: after a successful updateTransaction(T, I2) the splits stored for T
\* are exactly those createTransaction builds for I2, and none of the
\* splits T had before remains.
UpdateRebuildsSplits ==
    Succeeded("update") =>
        /\ StoredRows(last.tx) = CreatedRows(last.pre, last.data, uuid)
        /\ Cardinality(SplitsOf(DB, last.tx)) = Cardinality(StoredRows(last.tx))
        /\ SplitsOf(DB, last.tx) \cap SplitsOf(last.pre, last.tx) = {}

\* C21 witness: an expense was updated into a transfer between two accounts.
UpdateRebuildsSplitsWitness ==
    /\ Succeeded("update")
    /\ last.data.type = "TRANSFER"
    /\ last.data.from_account_id # last.data.to_account_id
    /\ \E r \in SplitsOf(last.pre, last.tx) : r.category_id = "c1" /\ r.amount > 0
    /\ Cardinality(StoredRows(last.tx)) = 2

\* C22: with no storage failure, TransactionModel.create followed by
\* TransactionModel.delete of the created transaction leaves every balance
\* as it was before the create and no header or split of the transaction.
ModelDeleteInvertsCreate ==
    (Succeeded("modelDelete") /\ Len(last.base) = 1) =>
        /\ accounts = last.base[1].pre.accounts
        /\ last.tx \notin DOMAIN transactions
        /\ SplitsOf(DB, last.tx) = {}

\* C22 witness: the deleted transaction was an expense that had lowered a
\* balance.
ModelDeleteInvertsCreateWitness ==
    /\ Succeeded("modelDelete") /\ Len(last.base) = 1
    /\ last.base[1].data.type = "EXPENSE"
    /\ last.pre.accounts # last.base[1].pre.accounts
    /\ last.tx \in DOMAIN last.pre.transactions

TransactionOps == {"create", "update", "delete", "batch"}

\* C24: the balance of a stored account is changed by transaction
\* operations only; updateAccount, and every other operation that is not a
\* transaction operation, leaves the balance of each account that stays
\* stored as it was.
BalanceWrittenByTransactionsOnly ==
    last.op \notin TransactionOps \cup {"none"} =>
        \A a \in DOMAIN accounts \cap DOMAIN last.pre.accounts :
            accounts[a] = last.pre.accounts[a]

\* C24 witness: updateAccount renamed an account whose balance a
\* transaction had moved.
BalanceWrittenByTransactionsOnlyWitness ==
    /\ Succeeded("updateAccount")
    /\ last.data \in DOMAIN accounts
    /\ account_names[last.data] # last.pre.account_names[last.data]
    /\ accounts[last.data] # opening[last.data]


\* C25: after any sequence of createTransaction, updateTransaction and
\* deleteTransaction calls every stored transaction header has exactly two
\* splits and every stored split belongs to a stored header.
HeadersAndSplitsPaired ==
    /\ \A tx \in DOMAIN transactions : Cardinality(SplitsOf(DB, tx)) = 2
    /\ \A r \in transaction_splits : r.transaction_id \in DOMAIN transactions

\* C25 witness: a delete removed one transaction, header and splits, while
\* another one is still stored with its two splits.
HeadersAndSplitsPairedWitness ==
    /\ Succeeded("delete")
    /\ last.tx \in DOMAIN last.pre.transactions
    /\ last.tx \notin StoredTxIds
    /\ \E tx \in DOMAIN transactions : Cardinality(SplitsOf(DB, tx)) = 2


\* The tables the two concurrent calls start from: those the first create
\* left.
RaceStart ==
    IF last.op = "create" /\ last.ret.kind = "ok"
    THEN createTransaction(last.pre, last.data, last.tx - 1, 0).db
    ELSE DB

BothDone(ops) == \A p \in Procs : calls[p].pc = "done" /\ calls[p].op \in ops

\* C26: two deleteTransaction calls running at once on the same transaction
\* reverse its balance effect at most once: when both have returned, the
\* balances are those after a single delete if a batch committed, and those
\* before the calls if none did.
ConcurrentDeletesReverseOnce ==
    BothDone({"delete"}) =>
        accounts = IF \E p \in Procs : calls[p].ok
                   THEN deleteTransaction(RaceStart, last.tx, 0, 0).db.accounts
                   ELSE RaceStart.accounts

\* What one of the two calls does when it runs alone on db.
Alone(db, call, u, failAfter) ==
    IF call.op = "delete"
    THEN deleteTransaction(db, last.tx, u, failAfter)
    ELSE updateTransaction(db, last.tx, call.data[1], u, failAfter)

\* The tables after call p has run to its end and then call q has.
Serial(p, q, f1, f2) ==
    LET first == Alone(RaceStart, calls[p], last.tx + 2, f1)
    IN Alone(first.db, calls[q], first.uuid, f2).db

\* Balances, headers and splits of db, the splits without their identifiers.
Ledger(db) ==
    [accounts |-> db.accounts, transactions |-> db.transactions,
     splits |-> {[transaction_id |-> r.transaction_id, account_id |-> r.account_id,
                  category_id |-> r.category_id, amount |-> r.amount, type |-> r.type] :
                 r \in db.transaction_splits}]

\* C27: an updateTransaction running at once with a deleteTransaction or
\* with another updateTransaction on the same transaction ends in balances,
\* splits and headers that one of the two serial orders produces, and
\* leaves no split of a transaction whose header is gone.
RaceSerializable ==
    (BothDone({"update", "delete"}) /\ \E p \in Procs : calls[p].op = "update") =>
        /\ \E p \in Procs, f1 \in Fails, f2 \in Fails :
               Ledger(DB) = Ledger(Serial(p, CHOOSE q \in Procs : q # p, f1, f2))
        /\ \A r \in transaction_splits : r.transaction_id \in DOMAIN transactions


\* The tables after the items from i on that are not in errors have been
\* created without failure, the others drawing their identifiers only.
RECURSIVE CreatedWithout(_, _, _, _, _)
CreatedWithout(db, items, errors, i, u) ==
    IF i > Len(items) THEN db
    ELSE LET out == TransactionModel_create(db, items[i], u, 0)
         IN CreatedWithout(IF i \in errors THEN db ELSE out.db, items, errors,
                           i + 1, out.uuid)

\* C28: after TransactionModel.createBatch the tables hold what the intents
\* outside the returned errors list create and nothing of an intent inside
\* it: no header, no split and no balance change.
BatchErrorsPersistNothing ==
    last.op = "modelBatch" =>
        DB = CreatedWithout(last.pre, last.data, last.ret.errors, 1, last.tx - 1)


\* The body of the query layer that names the same type, amount, accounts
\* and category as the body transactionData of the model layer.
AsIntent(transactionData) ==
    Intent(transactionData.type, transactionData.amount,
           IF transactionData.type = "INCOME" THEN NULL ELSE transactionData.accountId,
           IF transactionData.type = "INCOME" THEN transactionData.accountId
           ELSE transactionData.toAccountId,
           transactionData.categoryId, transactionData.description)

\* C29: for an intent with a positive integer amount, TransactionModel.create
\* changes each account's balance by the signed amount by which the
\* query-layer createTransaction changes it, the amount received in
\* magnitude.
CreateLayersAgree ==
    (Succeeded("modelCreate") /\ Whole(last.data) /\ last.data.amount > 0) =>
        \A a \in AccountIds :
            /\ accounts[a] - last.pre.accounts[a]
                 = createTransaction(last.pre, AsIntent(last.data), last.tx - 1, 0).db.accounts[a]
                   - last.pre.accounts[a]
            /\ accounts[a] - last.pre.accounts[a] = Delta(AsIntent(last.data), a)


\* C30: a session id is in the room of book b exactly when the session has
\* a connection whose bookId is b; no room holds a session without
\* connection and no room is empty.
RoomsMatchConnections ==
    /\ \A b \in BookIds, s \in 1 .. MaxSessions :
           (b \in DOMAIN rooms /\ s \in rooms[b])
               <=> (s \in DOMAIN sockets /\ sockets[s].bookId = b)
    /\ \A b \in DOMAIN rooms : rooms[b] # {} /\ rooms[b] \subseteq DOMAIN sockets

====
